---- MODULE Spec2Model ----
(***************************************************************************)
(* Model of the forex_bot decision loop: the Q-learning agent of           *)
(* rl_agent.py, the signal fusion and trade lifecycle of                   *)
(* main.run_trading_engine and analytics/backtest.backtest, the execution  *)
(* simulator and the risk gate.                                            *)
(*                                                                         *)
(* Units.  The program computes in floats; the model computes in exact     *)
(* integers of fixed units:                                                *)
(*   prices, ATR      ticks of 0.00001 (a tenth of a 0.0001 pip)           *)
(*   money            units of 0.5 dollar (MoneyScale units per dollar)    *)
(*   sizes            whole units                                          *)
(*   fractions        ten-thousandths (FS): drawdown, reward, Q, epsilon   *)
(*   sentiment        hundredths                                           *)
(*   time             seconds                                              *)
(* Quotients are truncated toward zero.                                    *)
(***************************************************************************)
EXTENDS Integers, Sequences, FiniteSets, TLC

VARIABLES
    prog,         \* which entry point runs: "engine", "backtest", "agent", "fuse"
    live,         \* config.LIVE_TRADING
    pc,           \* position of the running loop
    cycle,        \* cycles (engine) or bars (backtest) started so far
    steps,        \* pair steps taken so far
    selected,     \* selected_pairs still to process in this cycle
    now,          \* datetime.utcnow()
    equity, peak_equity, history,
    open_trades, prev_state, reward_ema,
    q_table, epsilon,
    start_due,    \* the pairs holding a trade when the cycle began -> max hold time already elapsed
    pnl_adds,     \* per pair: times the PnL of its latest trade was added to equity
    disk,         \* the Q-table snapshot file of save and load
    ev            \* what the last step did

vars == <<prog, live, pc, cycle, steps, selected, now, equity, peak_equity, history,
          open_trades, prev_state, reward_ema, q_table, epsilon,
          start_due, pnl_adds, disk, ev>>

----------------------------------------------------------------------------
(* Bounds of the model *)

NumPairs == 2
MaxCycles == 3
MaxSteps == 3
MaxCalls == 3
MaxBars == 3
WarmCalls == 427

(* Units *)

FS == 100 * 100
MoneyScale == 1 + 1

(* config.py *)

CURRENCY_PAIRS == <<"EUR/USD", "USD/JPY", "GBP/USD", "USD/CHF", "USD/CAD">>
TOP_PAIR_COUNT == 3
POSITION_SIZE == 10000
MAX_DRAWDOWN == 1000
MAX_RISK_PER_TRADE == 200
ALPHA == 1000
GAMMA == 9500
EPSILON_START == 5000
EPSILON_MIN == 500
EPSILON_DECAY == 9950
REWARD_CLIP_MIN == -10000
REWARD_CLIP_MAX == 10000
REWARD_SMOOTHING_ALPHA == 3000
DRAWDOWN_PENALTY_WEIGHT == 2
SPREAD_PIPS == 8
SLIPPAGE_PIPS == 2
COMMISSION_PER_TRADE == 5
MAX_HOLD_TIME_MINUTES == 120
API_CALL_INTERVAL == 8
DASHBOARD_REFRESH == 60
INITIAL_EQUITY == 20000
SENTIMENT_THRESHOLD == -30

actions == <<-1, 0, 1>>

----------------------------------------------------------------------------
(* Arithmetic helpers *)

Max(a, b) == IF a >= b THEN a ELSE b
Min(a, b) == IF a <= b THEN a ELSE b
Abs(a) == IF a >= 0 THEN a ELSE -a

\* a / b truncated toward zero, b > 0
Quot(a, b) == IF a >= 0 THEN a \div b ELSE -((-a) \div b)

\* x * f / FS for x >= 0 and 0 <= f <= FS, without overflowing 32 bits
MulFrac(x, f) == (x \div FS) * f + ((x % FS) * f) \div FS

SeqMax(s) == CHOOSE m \in {s[i] : i \in DOMAIN s} : \A i \in DOMAIN s : s[i] <= m

Pairs == {CURRENCY_PAIRS[i] : i \in 1..Min(NumPairs, Len(CURRENCY_PAIRS))}

----------------------------------------------------------------------------
(* rl_agent.py *)

\* discretize_state: np.digitize(x, bins) is the number of bins b with b <= x
Digitize(x, lo, hi) == (IF x >= lo THEN 1 ELSE 0) + (IF x >= hi THEN 1 ELSE 0)

\* float('nan'): np.digitize sorts it after every bin edge and `in (-1, 0, 1)`
\* does not find it, as for a number above every edge
NaN == 1000000

\* a discretize_state that passes the two cross inputs through as they come
discretize_state_pass(price_change_pct, rsi, ema_cross, macd_cross, volatility) ==
    << Digitize(price_change_pct, -10, 10) - 1,
       Digitize(rsi, 30, 70),
       ema_cross,
       macd_cross,
       Digitize(volatility, 50, 150) >>

\* price_change_pct in ten-thousandths, rsi in points, volatility in ticks
discretize_state(price_change_pct, rsi, ema_cross, macd_cross, volatility) ==
    << Digitize(price_change_pct, -10, 10) - 1,
       Digitize(rsi, 30, 70),
       IF ema_cross \in {-1, 0, 1} THEN ema_cross ELSE 0,
       IF macd_cross \in {-1, 0, 1} THEN macd_cross ELSE 0,
       Digitize(volatility, 50, 150) >>

ZeroRow == <<0, 0, 0>>

\* get_qs: the table with the state's row materialised
WithRow(q, s) == IF s \in DOMAIN q THEN q ELSE [t \in DOMAIN q \cup {s} |-> IF t = s THEN ZeroRow ELSE q[t]]

get_qs(q, s) == WithRow(q, s)[s]

\* the last index holding the maximum
ArgMaxLast(row) == CHOOSE i \in DOMAIN row : /\ \A j \in DOMAIN row : row[j] <= row[i]
                                             /\ \A j \in DOMAIN row : j > i => row[j] < row[i]

\* np.argmax: the first index holding the maximum
ArgMax(row) == CHOOSE i \in DOMAIN row : /\ \A j \in DOMAIN row : row[j] <= row[i]
                                         /\ \A j \in DOMAIN row : j < i => row[j] < row[i]

\* actions.index(action)
ActionIndex(a) == CHOOSE i \in DOMAIN actions : actions[i] = a

\* the action choose_action returns when it exploits
Greedy(q, s) == actions[ArgMax(get_qs(q, s))]

\* a choose_action that resets the row it reads
TableAfterChooseReset(q, s, explore) ==
    IF explore THEN q ELSE [t \in DOMAIN q \cup {s} |-> IF t = s THEN ZeroRow ELSE q[t]]

\* the table after choose_action: exploring does not touch it, exploiting calls get_qs
TableAfterChoose(q, s, explore) == IF explore THEN q ELSE WithRow(q, s)

\* the decay without its floor
DecayNoFloor(eps) == Quot(eps * EPSILON_DECAY, FS)

\* learn, lines 61-62
Decay(eps) == IF eps > EPSILON_MIN THEN Max(Quot(eps * EPSILON_DECAY, FS), EPSILON_MIN) ELSE eps

\* a learn that takes the next state's maximum after writing the new value
LearnTableMaxAfter(q, s, a, reward, s2) ==
    LET q1 == WithRow(q, s)
        idx == ActionIndex(a)
        current_q == q1[s][idx]
        q2 == WithRow(q1, s2)
        q3 == [q2 EXCEPT ![s][idx] = @ + Quot(ALPHA * (reward - current_q), FS)]
        next_max_q == SeqMax(q3[s2])
        target_q == reward + Quot(GAMMA * next_max_q, FS)
    IN  [q2 EXCEPT ![s][idx] = @ + Quot(ALPHA * (target_q - current_q), FS)]

\* a learn that steps past its target
LearnTableOvershoot(q, s, a, reward, s2) ==
    LET q1 == WithRow(q, s)
        idx == ActionIndex(a)
        current_q == q1[s][idx]
        q2 == WithRow(q1, s2)
        next_max_q == SeqMax(q2[s2])
        target_q == reward + Quot(GAMMA * next_max_q, FS)
    IN  [q2 EXCEPT ![s][idx] = @ + Quot((FS + ALPHA) * (target_q - current_q), FS)]

\* learn, lines 55-59: reward and Q-values in ten-thousandths
LearnTable(q, s, a, reward, s2) ==
    LET q1 == WithRow(q, s)
        idx == ActionIndex(a)
        current_q == q1[s][idx]
        q2 == WithRow(q1, s2)
        next_max_q == SeqMax(q2[s2])
        target_q == reward + Quot(GAMMA * next_max_q, FS)
    IN  [q2 EXCEPT ![s][idx] = @ + Quot(ALPHA * (target_q - current_q), FS)]

----------------------------------------------------------------------------
(* execution_simulator.py *)

\* A pair's prices are counted in ticks of a tenth of its pip: TickUnit is that
\* tick in units of 0.00001
TickUnit(pair) == IF pair \in {"USD/JPY", "EUR/JPY", "GBP/JPY"} THEN 100 ELSE 1

\* get_pip_size, in units of 0.00001
get_pip_size(pair) == IF pair \in {"USD/JPY", "EUR/JPY", "GBP/JPY"} THEN 1000 ELSE 10

\* a simulate_execution whose sell is filled above the mid price
simulate_execution_flip(pair, raw_price, direction, slip) ==
    LET pip_size == get_pip_size(pair) \div TickUnit(pair)
        spread_cost == (SPREAD_PIPS * pip_size) \div 10
        slippage == (slip * pip_size) \div 10
    IN  IF direction = 0 THEN raw_price ELSE raw_price + spread_cost + slippage

\* simulate_execution: SPREAD_PIPS and the drawn slippage are in tenths of a pip,
\* prices in ticks of the pair
simulate_execution(pair, raw_price, direction, slip) ==
    LET pip_size == get_pip_size(pair) \div TickUnit(pair)
        spread_cost == (SPREAD_PIPS * pip_size) \div 10
        slippage == (slip * pip_size) \div 10
    IN  IF direction = 1 THEN raw_price + spread_cost + slippage
        ELSE IF direction = -1 THEN raw_price - spread_cost - slippage
        ELSE raw_price

----------------------------------------------------------------------------
(* risk_management.py, utils.py, exit_strategy.py *)

\* round(): the integer nearest to num / den for num >= 0 and den > 0, the even
\* one of the two at a tie
RoundHalfEven(num, den) ==
    LET q == num \div den
        r == num % den
    IN  IF 2 * r > den \/ (2 * r = den /\ q % 2 = 1) THEN q + 1 ELSE q

\* a position_size that cuts the size off after its second decimal
position_size_cut(eq, atr_value, risk_per_trade) ==
    IF atr_value <= 0 \/ eq <= 0 THEN 0
    ELSE (eq * risk_per_trade * 1000) \div (MoneyScale * atr_value)

\* position_size: equity in money units, atr in units of 0.00001, risk in
\* ten-thousandths; the size in hundredths of a unit, as round(size, 2) leaves it
position_size(eq, atr_value, risk_per_trade) ==
    IF atr_value <= 0 \/ eq <= 0 THEN 0
    ELSE LET num == eq * risk_per_trade * 10
             den == MoneyScale * atr_value
         IN  (num \div den) * 100 + RoundHalfEven((num % den) * 100, den)

\* a check_drawdown that counts a drop equal to the limit as a breach
check_drawdown_ge(eq, peak, max_allowed) ==
    IF peak <= 0 THEN FALSE
    ELSE (peak - eq) * FS >= max_allowed * peak

check_drawdown(eq, peak, max_allowed) ==
    IF peak <= 0 THEN FALSE
    ELSE (peak - eq) * FS > max_allowed * peak

\* calculate_drawdown: the most negative (equity - peak) / peak over the curve
RECURSIVE DrawdownFrom(_, _, _, _)
DrawdownFrom(curve, i, peak, max_dd) ==
    IF i > Len(curve) THEN max_dd
    ELSE LET p == IF curve[i] > peak THEN curve[i] ELSE peak
             dd == IF p # 0 THEN Quot((curve[i] - p) * FS, p) ELSE 0
         IN  DrawdownFrom(curve, i + 1, p, IF dd < max_dd THEN dd ELSE max_dd)

calculate_drawdown(curve) ==
    IF Len(curve) = 0 THEN 0 ELSE DrawdownFrom(curve, 1, curve[1], 0)

check_time_exit(entry_time, current_time) ==
    current_time - entry_time > MAX_HOLD_TIME_MINUTES * 60

----------------------------------------------------------------------------
(* main.py: the reward of a close, lines 162-164 *)

\* np.tanh on ten-thousandths: x (27 + x^2) / (27 + 9 x^2), saturating at |x| >= 3
Tanh(x) ==
    LET t == Abs(x) \div 100
        g == ((270000 + t * t) * 1000) \div (270000 + 9 * t * t)
    IN  IF x >= 3 * FS THEN FS
        ELSE IF x <= -3 * FS THEN -FS
        ELSE Max(-FS, Min(FS, Quot(x * g, 1000)))

Clip(x, lo, hi) == IF x < lo THEN lo ELSE IF x > hi THEN hi ELSE x

\* shaped = pnl * (1.1 if tp else 1) - DRAWDOWN_PENALTY_WEIGHT * abs(min(dd, 0)),
\* in ten-thousandths of a dollar
Shaped(pnl, tp, dd) ==
    Quot(pnl * FS * (IF tp THEN 11 ELSE 10), MoneyScale * 10)
        - DRAWDOWN_PENALTY_WEIGHT * Abs(Min(dd, 0))

\* a reward that is scaled by a constant and neither squashed nor clamped
ClippedUnsquashed(pnl, tp, dd, size) == Quot(Shaped(pnl, tp, dd), 100)

Clipped(pnl, tp, dd, size) ==
    Clip(Tanh(Quot(Shaped(pnl, tp, dd), Max(1, size))), REWARD_CLIP_MIN, REWARD_CLIP_MAX)

RewardEma(old, clipped) ==
    Quot(REWARD_SMOOTHING_ALPHA * clipped + (FS - REWARD_SMOOTHING_ALPHA) * old, FS)

(* main.py: the fused signal, lines 118-120 *)

\* the rule with the veto one step too low: a sentiment of exactly -0.3 passes
FuseVetoBelow(sentiment, strat_sig, ml_sig, rl_act) ==
    IF /\ sentiment >= SENTIMENT_THRESHOLD
       /\ \/ (ml_sig = rl_act /\ rl_act # 0)
          \/ (ml_sig = strat_sig /\ strat_sig # 0)
    THEN ml_sig ELSE 0

Fuse(sentiment, strat_sig, ml_sig, rl_act) ==
    IF /\ sentiment > SENTIMENT_THRESHOLD
       /\ \/ (ml_sig = rl_act /\ rl_act # 0)
          \/ (ml_sig = strat_sig /\ strat_sig # 0)
    THEN ml_sig ELSE 0

(* analytics/backtest.py: the fused signal, lines 66-71 *)

\* the rule asking for the agreement of all three sources
FuseBacktestAll(sentiment_score, strategy_signal, ml_signal, rl_action) ==
    IF sentiment_score > SENTIMENT_THRESHOLD
    THEN IF ml_signal = rl_action /\ rl_action # 0 /\ ml_signal = strategy_signal THEN ml_signal
         ELSE 0
    ELSE 0

FuseBacktest(sentiment_score, strategy_signal, ml_signal, rl_action) ==
    IF sentiment_score > SENTIMENT_THRESHOLD
    THEN IF ml_signal = rl_action /\ rl_action # 0 THEN ml_signal
         ELSE IF ml_signal = strategy_signal /\ strategy_signal # 0 THEN ml_signal
         ELSE 0
    ELSE 0

(* main.py: sizes and PnL *)

\* adj_size, line 124; ml_conf in tenths, atr in ticks of the pair
AdjSize(pair, eq, curve, atr, ml_conf) ==
    LET pos_size == position_size(eq, atr * TickUnit(pair), MAX_RISK_PER_TRADE) \div 100
        dd == calculate_drawdown(curve)
    IN  Min((MulFrac(pos_size, Max(FS \div 5, FS + dd)) * ml_conf) \div 10, POSITION_SIZE)

\* pnl, line 140
PnL(signal, exec_entry, exec_exit, size) ==
    Quot(MoneyScale * signal * (exec_exit - exec_entry) * size, exec_entry) - COMMISSION_PER_TRADE

\* sl and tp, lines 142-143 (entry_price > 0)
StopLoss(exec_exit, entry_price, atr) == exec_exit - entry_price <= -2 * atr
TakeProfit(exec_exit, entry_price, atr) == exec_exit - entry_price >= 2 * atr

----------------------------------------------------------------------------
(* Python dicts as functions on their key sets *)

EmptyDict == <<>>
Put(d, k, v) == [x \in DOMAIN d \cup {k} |-> IF x = k THEN v ELSE d[x]]
Pop(d, k) == [x \in DOMAIN d \ {k} |-> d[x]]
Get(d, k, default) == IF k \in DOMAIN d THEN d[k] ELSE default

----------------------------------------------------------------------------
(* What the environment may hand to one pair step *)

PriceBase == 11 * 10000
Prices == {PriceBase - 20000, PriceBase, PriceBase + 50}
Atrs == {15}
Slips == {SLIPPAGE_PIPS}
Sentiments == {-50, SENTIMENT_THRESHOLD, 0}
Signals == {-1, 0, 1}
MlSignals == {-1, 1}
MlConfs == {0, 10}
PricePcts == {0}
Delays == {API_CALL_INTERVAL}
Sleeps == {DASHBOARD_REFRESH, MAX_HOLD_TIME_MINUTES * 60}

\* the sequences of distinct pairs rank_pairs()[:TOP_PAIR_COUNT] can be
RECURSIVE Rankings(_)
Rankings(n) ==
    IF n = 0 THEN {<<>>}
    ELSE LET shorter == Rankings(n - 1)
         IN  shorter \cup {Append(r, p) : r \in {x \in shorter : Len(x) = n - 1},
                                          p \in Pairs}

Distinct(r) == \A i, j \in DOMAIN r : i # j => r[i] # r[j]

Selections == {r \in Rankings(Min(TOP_PAIR_COUNT, Cardinality(Pairs))) : Distinct(r)}

NoEvent == [op |-> "none"]

\* no snapshot file at the path
NoFile == [kind |-> "missing"]

StepEvent(pair, outcome, had) ==
    [op |-> "step", pair |-> pair, outcome |-> outcome, had |-> had,
     sentiment |-> 0, final |-> 0, sized |-> FALSE,
     signal |-> 0, move |-> 0, atr |-> 0,
     sl |-> FALSE, tp |-> FALSE, tte |-> FALSE,
     appended |-> 0, learns |-> 0, opened |-> FALSE,
     orders |-> 0,
     entry |-> 0, size |-> 0, pnl |-> 0, dd |-> 0, reward |-> 0, old_ema |-> 0]

----------------------------------------------------------------------------
(* main.py: run_trading_engine *)

EngineInit ==
    /\ prog = "engine"
    /\ live \in BOOLEAN
    /\ pc = "init"
    /\ cycle = 0
    /\ steps = 0
    /\ selected = <<>>
    /\ now = 0
    /\ equity = INITIAL_EQUITY
    /\ peak_equity = INITIAL_EQUITY
    /\ history = <<INITIAL_EQUITY>>
    /\ open_trades = EmptyDict
    /\ prev_state = EmptyDict
    /\ reward_ema = EmptyDict
    /\ q_table = EmptyDict
    /\ epsilon = EPSILON_START
    /\ start_due = EmptyDict
    /\ pnl_adds = [p \in Pairs |-> 0]
    /\ disk = NoFile
    /\ ev = NoEvent

\* mt5_connector.py lines 8-17: initialize_mt5 returns None (connected, or
\* connected before) or raises RuntimeError
MT5Outcomes == {"returns_none", "raises"}

\* an engine that goes on when initialize_mt5 has connected
InitAbortsOnFailure(outcome) == outcome = "raises"

\* lines 64-66: `not initialize_mt5()` is true for the None it returns, and the
\* exception it raises leaves run_trading_engine before the try of line 68
InitAborts(outcome) == TRUE

\* lines 64-66: a live engine stops here
EngineStart ==
    /\ prog = "engine" /\ pc = "init"
    /\ \E outcome \in MT5Outcomes :
          pc' = IF live /\ InitAborts(outcome) THEN "done" ELSE "idle"
    /\ UNCHANGED <<prog, live, cycle, steps, selected, now, equity, peak_equity, history,
                   open_trades, prev_state, reward_ema, q_table, epsilon,
                   start_due, pnl_adds, ev, disk>>

\* lines 69-83: a new cycle and its pair selection
BeginCycle ==
    /\ prog = "engine" /\ pc = "idle" /\ cycle < MaxCycles
    /\ \E sel \in Selections : Len(sel) <= MaxSteps - steps /\ selected' = sel
    /\ cycle' = cycle + 1
    /\ pc' = "pairs"
    /\ start_due' = [p \in DOMAIN open_trades |-> check_time_exit(open_trades[p].entry_time, now)]
    /\ ev' = NoEvent
    /\ UNCHANGED <<prog, live, steps, now, equity, peak_equity, history, open_trades,
                   prev_state, reward_ema, q_table, epsilon, pnl_adds,
                   disk>>

\* line 132 and line 170: which branch the step takes
ExitBranch(had) == had

\* the OPEN branch as an `if` of its own
OpenBranchIf(had, final_sig, adj_size) == final_sig # 0 /\ adj_size > 0

\* an OPEN branch that also opens a trade for a fused signal of 0
OpenBranchAny(had, final_sig, adj_size) == ~ExitBranch(had) /\ adj_size > 0

OpenBranch(had, final_sig, adj_size) == ~ExitBranch(had) /\ final_sig # 0 /\ adj_size > 0

\* line 146
CloseTrigger(sl, tp, tte) == sl \/ tp \/ tte

\* lines 86-91 and 185-186: the fetch raises, or returns too little data
StepNoData(p) ==
    \E dt \in Delays, raised \in BOOLEAN :
        /\ now' = now + dt
        /\ ev' = StepEvent(p, IF raised THEN "error" ELSE "no_data", p \in DOMAIN open_trades)
        /\ UNCHANGED <<equity, peak_equity, history, open_trades, prev_state,
                       reward_ema, q_table, epsilon, pnl_adds>>

\* lines 94-97
StepNegSentiment(p) ==
    \E dt \in Delays, sentiment \in Sentiments :
        /\ sentiment < SENTIMENT_THRESHOLD
        /\ now' = now + dt
        /\ ev' = [StepEvent(p, "neg_sentiment", p \in DOMAIN open_trades)
                    EXCEPT !.sentiment = sentiment,
                           !.tte = /\ p \in DOMAIN open_trades
                                   /\ check_time_exit(open_trades[p].entry_time, now + dt)]
        /\ UNCHANGED <<equity, peak_equity, history, open_trades, prev_state,
                       reward_ema, q_table, epsilon, pnl_adds>>

\* lines 94-124 for one reading of the market: the sentiment read, whether
\* choose_action explored, the fused signal and the adjusted size, over every
\* strategy signal, ML signal, ML confidence and random action
Decisions(p, state, atr) ==
    LET greedy == Greedy(q_table, state)
        sizes == {AdjSize(p, equity, history, atr, ml_conf) : ml_conf \in MlConfs}
        finals(sentiment, explore) ==
            {Fuse(sentiment, strat_sig, ml_sig, rl_act) :
                strat_sig \in Signals, ml_sig \in MlSignals,
                rl_act \in IF explore THEN Signals ELSE {greedy}}
    IN  UNION {{[sentiment |-> sentiment, explore |-> explore,
                 final_sig |-> final_sig, adj_size |-> adj_size] :
                    final_sig \in finals(sentiment, explore), adj_size \in sizes} :
                sentiment \in {x \in Sentiments : x >= SENTIMENT_THRESHOLD},
                explore \in {e \in BOOLEAN : (e => epsilon > 0) /\ (~e => epsilon < FS)}}

\* lines 133-144: what the EXIT branch computes for the pair's open trade
ExitView(p, trade, close_now, atr, now1, slip1, slip2) ==
    LET exec_entry == IF live THEN trade.entry_price
                      ELSE simulate_execution(p, trade.entry_price, trade.signal, slip1)
        exec_exit == IF live THEN close_now
                     ELSE simulate_execution(p, close_now, -trade.signal, slip2)
    IN  [signal |-> trade.signal,
         entry |-> trade.entry_price,
         size |-> trade.position_size,
         move |-> exec_exit - trade.entry_price,
         pnl |-> PnL(trade.signal, exec_entry, exec_exit, trade.position_size),
         sl |-> StopLoss(exec_exit, trade.entry_price, atr),
         tp |-> TakeProfit(exec_exit, trade.entry_price, atr),
         tte |-> check_time_exit(trade.entry_time, now1)]

NoView == [signal |-> 0, entry |-> 0, size |-> 0, move |-> 0, pnl |-> 0,
           sl |-> FALSE, tp |-> FALSE, tte |-> FALSE]

\* lines 146-183: the state after the step.  closing: the close branch is entered;
\* failed: log_trade or record_trade_minimal raises in it, so lines 160-183 are
\* skipped and the except clause of line 185 ends the step
Commit(p, d, state, now1, atr, had, x, closing, failed, new_trade) ==
    LET closed == closing /\ ~failed
        opening == ~failed /\ OpenBranch(had, d.final_sig, d.adj_size)
        equity1 == equity + x.pnl
        q1 == TableAfterChoose(q_table, state, d.explore)
        trades1 == IF closed THEN Pop(open_trades, p) ELSE open_trades
        outcome == IF failed THEN "log_failed"
                   ELSE IF closed THEN "closed"
                   ELSE IF opening THEN "opened"
                   ELSE IF had THEN "held" ELSE "flat"
    IN  \E dd \in {IF closing THEN calculate_drawdown(Append(history, equity1)) ELSE 0} :
        \E ema1 \in {IF closed THEN RewardEma(Get(reward_ema, p, 0),
                                              Clipped(x.pnl, x.tp, dd, x.size))
                      ELSE 0} :
        /\ now' = now1
        /\ equity' = IF closing THEN equity1 ELSE equity
        /\ peak_equity' = IF closing THEN Max(peak_equity, equity1) ELSE peak_equity
        /\ history' = IF closing THEN Append(history, equity1) ELSE history
        /\ IF closed
           THEN /\ reward_ema' = Put(reward_ema, p, ema1)
                /\ q_table' = LearnTable(q1, prev_state[p], x.signal, ema1, state)
                /\ epsilon' = Decay(epsilon)
           ELSE /\ reward_ema' = reward_ema
                /\ q_table' = q1
                /\ epsilon' = epsilon
        /\ open_trades' = IF opening THEN Put(trades1, p, new_trade) ELSE trades1
        /\ prev_state' = IF failed THEN prev_state ELSE Put(prev_state, p, state)
        /\ pnl_adds' = [pnl_adds EXCEPT ![p] = IF opening THEN 0
                                               ELSE IF closing THEN @ + 1 ELSE @]
        /\ ev' = [op |-> "step", pair |-> p, outcome |-> outcome, had |-> had,
                  sentiment |-> d.sentiment, final |-> d.final_sig, sized |-> d.adj_size > 0,
                  signal |-> x.signal, move |-> x.move, atr |-> atr,
                  sl |-> x.sl, tp |-> x.tp, tte |-> x.tte,
                  appended |-> IF closing THEN 1 ELSE 0,
                  learns |-> IF closed THEN 1 ELSE 0,
                  opened |-> opening,
                  orders |-> IF live /\ (closing \/ opening) THEN 1 ELSE 0,
                  entry |-> x.entry, size |-> x.size, pnl |-> x.pnl, dd |-> dd,
                  reward |-> ema1, old_ema |-> Get(reward_ema, p, 0)]

\* lines 128-146: the branch taken, and whether a logging step of the close raises
Settle(p, d, state, now1, atr, had, x, close_now, slip1) ==
    \E log_raises \in IF ExitBranch(had) /\ CloseTrigger(x.sl, x.tp, x.tte)
                       THEN BOOLEAN ELSE {FALSE} :
        Commit(p, d, state, now1, atr, had, x,
               ExitBranch(had) /\ CloseTrigger(x.sl, x.tp, x.tte),
               ExitBranch(had) /\ CloseTrigger(x.sl, x.tp, x.tte) /\ log_raises,
               [entry_price |-> IF live THEN close_now
                                ELSE simulate_execution(p, close_now, d.final_sig, slip1),
                entry_time |-> now1,
                position_size |-> d.adj_size,
                signal |-> d.final_sig])

\* lines 99-183
StepDecide(p) ==
    \E dt \in Delays, atr \in Atrs, price_pct \in PricePcts :
    \E state \in {discretize_state(price_pct, 50, 0, 0, atr * TickUnit(p))} :
    \E d \in Decisions(p, state, atr) :
        IF p \in DOMAIN open_trades
        THEN \E close_now \in Prices, slip1 \in Slips, slip2 \in Slips :
                Settle(p, d, state, now + dt, atr, TRUE,
                       ExitView(p, open_trades[p], close_now, atr, now + dt, slip1, slip2),
                       close_now, slip1)
        ELSE IF OpenBranch(FALSE, d.final_sig, d.adj_size)
        THEN \E close_now \in Prices, slip1 \in Slips :
                Settle(p, d, state, now + dt, atr, FALSE, NoView, close_now, slip1)
        ELSE Settle(p, d, state, now + dt, atr, FALSE, NoView, PriceBase, 0)

\* an engine that stops at the first pair whose processing raises
AfterStepAbort(outcome) == IF outcome \in {"error", "log_failed"} THEN "done" ELSE "pairs"

\* lines 87 and 185-186: the try and its `except Exception` lie inside the for
\* loop, so the loop goes on to the next pair whatever the step's outcome
AfterStep(outcome) == "pairs"

\* lines 85-190: one iteration of the loop over selected_pairs
PairStep ==
    /\ prog = "engine" /\ pc = "pairs" /\ selected # <<>>
    /\ steps' = steps + 1
    /\ \/ StepNoData(Head(selected))
       \/ StepNegSentiment(Head(selected))
       \/ StepDecide(Head(selected))
    /\ pc' = AfterStep(ev'.outcome)
    /\ selected' = Tail(selected)
    /\ UNCHANGED <<prog, live, cycle, start_due, disk>>

\* a gate that may be evaluated while pairs of the cycle are still to be processed
GateDueAnywhere(sel) == TRUE

\* line 192 follows the for loop of line 85: the gate is reached when no selected
\* pair is left
GateDue(sel) == sel = <<>>

\* lines 192-197: the drawdown gate, then the break or the sleep before the next
\* cycle
EndCycle ==
    /\ prog = "engine" /\ pc = "pairs" /\ GateDue(selected)
    /\ \E breach \in {check_drawdown(equity, peak_equity, MAX_DRAWDOWN)} :
          /\ pc' = IF breach THEN "done" ELSE "idle"
          /\ \E sleep \in Sleeps : now' = IF breach THEN now ELSE now + sleep
          /\ ev' = [op |-> "gate", breach |-> breach,
                    last |-> IF ev.op = "step" THEN ev.outcome ELSE "none"]
    /\ UNCHANGED <<prog, live, cycle, steps, selected, equity, peak_equity, history,
                   open_trades, prev_state, reward_ema, q_table, epsilon,
                   start_due, pnl_adds, disk>>

EngineNext == EngineStart \/ BeginCycle \/ PairStep \/ EndCycle

----------------------------------------------------------------------------
(* analytics/backtest.py: backtest, one pair over the bars of a frame *)

BacktestPair == "GBP/USD"

\* lines 25-32; cycle counts the bars visited, now is the index of the bar
BacktestInit ==
    /\ prog = "backtest"
    /\ live = FALSE
    /\ pc = "bars"
    /\ cycle = 0
    /\ steps = 0
    /\ selected = <<>>
    /\ now = 0
    /\ equity = INITIAL_EQUITY
    /\ peak_equity = INITIAL_EQUITY
    /\ history = <<INITIAL_EQUITY>>
    /\ open_trades = EmptyDict
    /\ prev_state = EmptyDict
    /\ reward_ema = EmptyDict
    /\ q_table = EmptyDict
    /\ epsilon = EPSILON_START
    /\ start_due = EmptyDict
    /\ pnl_adds = [p \in Pairs |-> 0]
    /\ disk = NoFile
    /\ ev = NoEvent

BarEvent(outcome, had) ==
    [op |-> "bar", pair |-> BacktestPair, outcome |-> outcome, had |-> had,
     sentiment |-> 0, final |-> 0, sized |-> FALSE,
     appended |-> 0, learns |-> 0, opened |-> FALSE,
     explore |-> FALSE, rl |-> 0]

\* lines 74-75; ml_confidence in tenths
AdjSizeBacktest(eq, volatility, ml_confidence) ==
    Min(((position_size(eq, volatility * TickUnit(BacktestPair), MAX_RISK_PER_TRADE) \div 100)
            * ml_confidence) \div 10, POSITION_SIZE)

\* lines 36-39 and 119-121: a step of the bar raises before the agent is asked
BarError ==
    /\ ev' = BarEvent("error", BacktestPair \in DOMAIN open_trades)
    /\ UNCHANGED <<equity, history, open_trades, q_table>>

\* lines 42-44
BarNegSentiment ==
    \E sentiment_score \in Sentiments :
        /\ sentiment_score < SENTIMENT_THRESHOLD
        /\ ev' = [BarEvent("neg_sentiment", BacktestPair \in DOMAIN open_trades)
                    EXCEPT !.sentiment = sentiment_score]
        /\ UNCHANGED <<equity, history, open_trades, q_table>>

\* a backtest that closes its trade only on a stop-loss or take-profit move
BacktestClosesOnTrigger(had, move, volatility) ==
    had /\ (move <= -2 * volatility \/ move >= 2 * volatility)

\* line 78: `if open_trade is not None` is the only condition of the close
BacktestCloses(had, move, volatility) == had

\* lines 78-117: the close of the open trade, then the open
BarCommit(had, closing, sentiment_score, final_signal, adjusted_pos_size, explore, rl_action, state, equity1, failed, new_trade) ==
    /\ equity' = IF closing THEN equity1 ELSE equity
    /\ history' = IF closing THEN Append(history, equity1) ELSE history
    /\ q_table' = TableAfterChoose(q_table, state, explore)
    /\ open_trades' = IF failed THEN open_trades
                      ELSE IF final_signal # 0 THEN Put(EmptyDict, BacktestPair, new_trade)
                      ELSE IF closing THEN EmptyDict
                      ELSE open_trades
    /\ ev' = [op |-> "bar", pair |-> BacktestPair,
              outcome |-> IF failed THEN "log_failed"
                          ELSE IF closing THEN "closed"
                          ELSE IF final_signal # 0 THEN "opened"
                          ELSE IF had THEN "held" ELSE "flat",
              had |-> had, sentiment |-> sentiment_score, final |-> final_signal,
              sized |-> adjusted_pos_size > 0,
              appended |-> IF closing THEN 1 ELSE 0, learns |-> 0,
              opened |-> ~failed /\ final_signal # 0,
              explore |-> explore, rl |-> rl_action]

\* lines 46-117
BarDecide ==
    \E sentiment_score \in {x \in Sentiments : x >= SENTIMENT_THRESHOLD},
       strategy_signal \in Signals, ml_signal \in MlSignals, ml_confidence \in MlConfs,
       volatility \in Atrs, close_now \in Prices, slip1 \in Slips, slip2 \in Slips,
       explore \in {e \in BOOLEAN : (e => epsilon > 0) /\ (~e => epsilon < FS)} :
    \E state \in {discretize_state(0, 50, 0, 0, volatility * TickUnit(BacktestPair))} :
    \E rl_action \in IF explore THEN Signals ELSE {Greedy(q_table, state)} :
    \E final_signal \in {FuseBacktest(sentiment_score, strategy_signal, ml_signal, rl_action)} :
    \E had \in {BacktestPair \in DOMAIN open_trades} :
    \E simulated_exit \in {IF had
                            THEN simulate_execution(BacktestPair, close_now,
                                                    -open_trades[BacktestPair].signal, slip2)
                            ELSE close_now} :
    \E closing \in {BacktestCloses(had,
                                    IF had
                                    THEN simulated_exit - open_trades[BacktestPair].entry_price
                                    ELSE 0,
                                    volatility)} :
    \E log_raises \in IF closing THEN BOOLEAN ELSE {FALSE} :
        BarCommit(had, closing, sentiment_score, final_signal,
                  AdjSizeBacktest(equity, volatility, ml_confidence), explore, rl_action, state,
                  IF closing
                  THEN equity + PnL(open_trades[BacktestPair].signal,
                                    simulate_execution(BacktestPair,
                                                       open_trades[BacktestPair].entry_price,
                                                       open_trades[BacktestPair].signal, slip1),
                                    simulated_exit,
                                    open_trades[BacktestPair].position_size)
                  ELSE equity,
                  log_raises,
                  [entry_price |-> simulate_execution(BacktestPair, close_now, final_signal, slip1),
                   entry_time |-> now + 1,
                   position_size |-> AdjSizeBacktest(equity, volatility, ml_confidence),
                   signal |-> final_signal])

\* lines 34-121: one bar of the frame
BacktestBar ==
    /\ prog = "backtest" /\ pc = "bars" /\ cycle < MaxBars
    /\ cycle' = cycle + 1
    /\ now' = now + 1
    /\ (BarError \/ BarNegSentiment \/ BarDecide)
    /\ UNCHANGED <<prog, live, pc, steps, selected, peak_equity, prev_state, reward_ema,
                   epsilon, start_due, pnl_adds, disk>>

\* lines 123-135: the frame is exhausted
BacktestEnd ==
    /\ prog = "backtest" /\ pc = "bars"
    /\ pc' = "done"
    /\ ev' = NoEvent
    /\ UNCHANGED <<prog, live, cycle, steps, selected, now, equity, peak_equity, history,
                   open_trades, prev_state, reward_ema, q_table, epsilon,
                   start_due, pnl_adds, disk>>

BacktestNext == BacktestBar \/ BacktestEnd

----------------------------------------------------------------------------
(* rl_agent.py: a QLearningAgent under any sequence of choose_action and     *)
(* learn calls.  The run starts from a fresh agent, or from the agent left   *)
(* by WarmCalls calls learn(s, a, 0, s) on one state: every row still zero,  *)
(* epsilon decayed WarmCalls times.                                          *)

AgentStates == {discretize_state(price_change_pct, 50, 0, 0, 10) : price_change_pct \in {-20, 0}}
Rewards == {-FS, 0, FS}

\* epsilon after n more learn calls, by halves of n
RECURSIVE DecayTimes(_, _)
DecayTimes(eps, n) ==
    IF n = 0 THEN eps
    ELSE IF n = 1 THEN Decay(eps)
    ELSE CHOOSE r \in {DecayTimes(e, n - n \div 2) : e \in {DecayTimes(eps, n \div 2)}} : TRUE

EpsAfter(n) == DecayTimes(EPSILON_START, n)

\* lines 13-21
AgentInit ==
    /\ prog = "agent"
    /\ live = FALSE
    /\ pc = "calls"
    /\ cycle = 0
    /\ steps = 0
    /\ selected = <<>>
    /\ now = 0
    /\ equity = INITIAL_EQUITY
    /\ peak_equity = INITIAL_EQUITY
    /\ history = <<INITIAL_EQUITY>>
    /\ open_trades = EmptyDict
    /\ prev_state = EmptyDict
    /\ reward_ema = EmptyDict
    /\ \E n \in {0, WarmCalls} :
          /\ epsilon = EpsAfter(n)
          /\ q_table = IF n = 0 THEN EmptyDict
                       ELSE WithRow(EmptyDict, discretize_state(0, 50, 0, 0, 10))
    /\ start_due = EmptyDict
    /\ pnl_adds = [p \in Pairs |-> 0]
    /\ disk = NoFile
    /\ ev = NoEvent

\* A Python value handed to the agent as a state: whether it is a tuple, and its
\* components, each an int or not
PyTuple(key) == [is_tuple |-> TRUE, elems |-> [i \in DOMAIN key |-> [is_int |-> TRUE, v |-> key[i]]]]

\* a list of five ints, a 5-tuple holding a float, a 3-tuple of ints
AgentMalformed ==
    {[PyTuple(<<0, 1, 0, 0, 0>>) EXCEPT !.is_tuple = FALSE],
     [PyTuple(<<0, 1, 0, 0, 0>>) EXCEPT !.elems[1].is_int = FALSE],
     PyTuple(<<0, 1, 0>>)}

AgentValues == {PyTuple(key) : key \in AgentStates} \cup AgentMalformed

\* validate_state, lines 23-29: TRUE when it returns the state, FALSE when it raises ValueError
validate_state(value) == value.is_tuple /\ \A i \in DOMAIN value.elems : value.elems[i].is_int

\* the dict key of a validated state
Key(value) == [i \in DOMAIN value.elems |-> value.elems[i].v]

\* what a call that raised leaves behind
Raised(call, args) == [op |-> "raise", call |-> call, args |-> args]

\* lines 37-48
choose_action ==
    /\ prog = "agent" /\ steps < MaxCalls
    /\ \E value \in AgentValues :
          IF validate_state(value)
          THEN \E state \in {Key(value)},
                  explore \in {e \in BOOLEAN : (e => epsilon > 0) /\ (~e => epsilon < FS)} :
               \E action \in IF explore THEN {actions[i] : i \in DOMAIN actions}
                              ELSE {Greedy(q_table, state)} :
                  /\ q_table' = TableAfterChoose(q_table, state, explore)
                  /\ ev' = [op |-> "choose", args |-> <<value>>, state |-> state,
                            explore |-> explore, known |-> state \in DOMAIN q_table,
                            row |-> get_qs(q_table, state), action |-> action]
          ELSE /\ q_table' = q_table
               /\ ev' = Raised("choose_action", <<value>>)
    /\ steps' = steps + 1
    /\ UNCHANGED <<prog, live, pc, cycle, selected, now, equity, peak_equity, history,
                   open_trades, prev_state, reward_ema, epsilon, start_due, pnl_adds,
                   disk>>

\* the actions learn is called with: those of the agent and one it does not know
LearnActions == Signals \cup {2}

\* a learn that reads the state's row before it checks next_state and the action
TableAfterFailedLearnLate(q, value, next_value) ==
    IF validate_state(value) THEN WithRow(q, Key(value)) ELSE q

\* lines 51-53: both validations and actions.index(action) come before the first
\* get_qs of line 55, so a call that raises there has not touched the table
TableAfterFailedLearn(q, value, next_value) == q

\* lines 50-65
learn ==
    /\ prog = "agent" /\ steps < MaxCalls
    /\ \E value \in AgentValues, action \in LearnActions, reward \in Rewards,
          next_value \in AgentValues :
          IF /\ validate_state(value) /\ validate_state(next_value)
             /\ \E i \in DOMAIN actions : actions[i] = action
          THEN \E state \in {Key(value)}, next_state \in {Key(next_value)} :
                  /\ q_table' = LearnTable(q_table, state, action, reward, next_state)
                  /\ epsilon' = Decay(epsilon)
                  /\ ev' = [op |-> "learn", args |-> <<value, next_value>>,
                            state |-> state, action |-> action, reward |-> reward,
                            next_state |-> next_state,
                            repeat |-> /\ ev.op = "learn"
                                       /\ ev.args = <<value, next_value>>
                                       /\ ev.action = action /\ ev.reward = reward,
                            current_q |-> get_qs(q_table, state)[ActionIndex(action)],
                            next_max_q |-> SeqMax(get_qs(WithRow(q_table, state), next_state))]
          ELSE /\ q_table' = TableAfterFailedLearn(q_table, value, next_value)
               /\ epsilon' = epsilon
               /\ ev' = Raised("learn", <<value, next_value>>) @@ [action |-> action]
    /\ steps' = steps + 1
    /\ UNCHANGED <<prog, live, pc, cycle, selected, now, equity, peak_equity, history,
                   open_trades, prev_state, reward_ema, start_due, pnl_adds,
                   disk>>

\* pickle.dump of the table: its items, one <<state, row>> after the other
RECURSIVE Items(_, _)
Items(q, keys) ==
    IF keys = {} THEN <<>>
    ELSE LET k == CHOOSE x \in keys : TRUE
         IN  <<<<k, q[k]>>>> \o Items(q, keys \ {k})

pickle_dump(q) == Items(q, DOMAIN q)

\* a load that loses the last item of the snapshot
pickle_load_short(bytes) ==
    [k \in {bytes[i][1] : i \in 1..(Len(bytes) - 1)} |->
        bytes[CHOOSE i \in 1..(Len(bytes) - 1) : bytes[i][1] = k][2]]

\* pickle.load of a snapshot: the dict of its items
pickle_load(bytes) ==
    [k \in {bytes[i][1] : i \in DOMAIN bytes} |->
        bytes[CHOOSE i \in DOMAIN bytes : bytes[i][1] = k][2]]

\* save, lines 67-69: open(path, "wb") may raise, and so may a dump cut short,
\* which leaves a truncated file
save ==
    /\ prog = "agent" /\ steps < MaxCalls
    /\ \E outcome \in {"written", "unwritable", "truncated"} :
          /\ disk' = IF outcome = "written" THEN [kind |-> "file", bytes |-> pickle_dump(q_table)]
                     ELSE IF outcome = "truncated" THEN [kind |-> "corrupt"]
                     ELSE disk
          /\ ev' = [op |-> "save", failed |-> outcome # "written",
                    raised |-> outcome # "written", before |-> q_table]
    /\ steps' = steps + 1
    /\ UNCHANGED <<prog, live, pc, cycle, selected, now, equity, peak_equity, history,
                   open_trades, prev_state, reward_ema, q_table, epsilon, start_due,
                   pnl_adds>>

\* load, lines 71-76: only FileNotFoundError is caught
load ==
    /\ prog = "agent" /\ steps < MaxCalls
    /\ q_table' = IF disk.kind = "file" THEN pickle_load(disk.bytes)
                  ELSE IF disk.kind = "missing" THEN EmptyDict
                  ELSE q_table
    /\ ev' = [op |-> "load", failed |-> disk.kind # "file",
              raised |-> disk.kind = "corrupt", before |-> q_table,
              after_save |-> ev.op = "save" /\ ~ev.failed]
    /\ steps' = steps + 1
    /\ UNCHANGED <<prog, live, pc, cycle, selected, now, equity, peak_equity, history,
                   open_trades, prev_state, reward_ema, epsilon, start_due, pnl_adds,
                   disk>>

AgentNext == choose_action \/ learn \/ save \/ load
AgentSpec == AgentInit /\ [][AgentNext]_vars

----------------------------------------------------------------------------
(* The two fusion rules applied to the same inputs, main.py lines 118-120    *)
(* and analytics/backtest.py lines 66-71                                     *)

FuseInit ==
    /\ prog = "fuse"
    /\ live = FALSE
    /\ pc = "calls"
    /\ cycle = 0
    /\ steps = 0
    /\ selected = <<>>
    /\ now = 0
    /\ equity = INITIAL_EQUITY
    /\ peak_equity = INITIAL_EQUITY
    /\ history = <<INITIAL_EQUITY>>
    /\ open_trades = EmptyDict
    /\ prev_state = EmptyDict
    /\ reward_ema = EmptyDict
    /\ q_table = EmptyDict
    /\ epsilon = EPSILON_START
    /\ start_due = EmptyDict
    /\ pnl_adds = [p \in Pairs |-> 0]
    /\ disk = NoFile
    /\ ev = NoEvent

FuseCall ==
    /\ prog = "fuse" /\ steps < MaxCalls
    /\ \E sentiment \in Sentiments, strat_sig \in Signals, ml_sig \in Signals,
          rl_act \in Signals :
          ev' = [op |-> "fuse", sentiment |-> sentiment, strat |-> strat_sig,
                 ml |-> ml_sig, rl |-> rl_act,
                 engine |-> Fuse(sentiment, strat_sig, ml_sig, rl_act),
                 backtest |-> FuseBacktest(sentiment, strat_sig, ml_sig, rl_act)]
    /\ steps' = steps + 1
    /\ UNCHANGED <<prog, live, pc, cycle, selected, now, equity, peak_equity, history,
                   open_trades, prev_state, reward_ema, q_table, epsilon,
                   start_due, pnl_adds, disk>>

FuseNext == FuseCall
FuseSpec == FuseInit /\ [][FuseNext]_vars

----------------------------------------------------------------------------
(* risk_management.py, execution_simulator.py and the pure functions of
   rl_agent.py and utils.py, called on their own *)

\* equities and peaks in money units: -5.00, 0, 100.00, 900.00, 950.00, 960.00, 1000.00
RiskEquities == {-10, 0, 200, 1800, 1900, 1920, 2000}
RiskPeaks == {-2000, 0, 2000}
\* max_allowed and risk_per_trade in ten-thousandths
RiskLimits == {500, MAX_DRAWDOWN}
Risks == {100, MAX_RISK_PER_TRADE}
\* atr in units of 0.00001
RiskAtrs == {-5, 0, 7, 15, 30}
ExecPairs == {"EUR/USD", "USD/JPY"}
\* random.uniform(0, SLIPPAGE_PIPS), in tenths of a pip
ExecSlips == 0..SLIPPAGE_PIPS

RiskInit ==
    /\ prog = "risk"
    /\ live = FALSE
    /\ pc = "calls"
    /\ cycle = 0
    /\ steps = 0
    /\ selected = <<>>
    /\ now = 0
    /\ equity = INITIAL_EQUITY
    /\ peak_equity = INITIAL_EQUITY
    /\ history = <<INITIAL_EQUITY>>
    /\ open_trades = EmptyDict
    /\ prev_state = EmptyDict
    /\ reward_ema = EmptyDict
    /\ q_table = EmptyDict
    /\ epsilon = EPSILON_START
    /\ start_due = EmptyDict
    /\ pnl_adds = [p \in Pairs |-> 0]
    /\ disk = NoFile
    /\ ev = NoEvent

PositionSizeCall ==
    /\ prog = "risk" /\ steps < MaxCalls
    /\ \E eq \in RiskEquities, atr_value \in RiskAtrs, risk_per_trade \in Risks :
          ev' = [op |-> "position_size", equity |-> eq, atr |-> atr_value,
                 risk |-> risk_per_trade,
                 result |-> position_size(eq, atr_value, risk_per_trade),
                 wider |-> {position_size(eq, a, risk_per_trade) :
                               a \in {b \in RiskAtrs : b > 0 /\ b >= atr_value}}]
    /\ steps' = steps + 1
    /\ UNCHANGED <<prog, live, pc, cycle, selected, now, equity, peak_equity, history,
                   open_trades, prev_state, reward_ema, q_table, epsilon,
                   start_due, pnl_adds, disk>>

CheckDrawdownCall ==
    /\ prog = "risk" /\ steps < MaxCalls
    /\ \E eq \in RiskEquities, peak \in RiskPeaks, max_allowed \in RiskLimits :
          ev' = [op |-> "check_drawdown", equity |-> eq, peak |-> peak,
                 max_allowed |-> max_allowed,
                 result |-> check_drawdown(eq, peak, max_allowed)]
    /\ steps' = steps + 1
    /\ UNCHANGED <<prog, live, pc, cycle, selected, now, equity, peak_equity, history,
                   open_trades, prev_state, reward_ema, q_table, epsilon,
                   start_due, pnl_adds, disk>>

SimulateExecutionCall ==
    /\ prog = "risk" /\ steps < MaxCalls
    /\ \E pair \in ExecPairs, raw_price \in Prices, direction \in Signals,
          slip \in ExecSlips :
          ev' = [op |-> "simulate_execution", pair |-> pair, raw |-> raw_price,
                 direction |-> direction, slip |-> slip,
                 result |-> simulate_execution(pair, raw_price, direction, slip)]
    /\ steps' = steps + 1
    /\ UNCHANGED <<prog, live, pc, cycle, selected, now, equity, peak_equity, history,
                   open_trades, prev_state, reward_ema, q_table, epsilon,
                   start_due, pnl_adds, disk>>

\* raw inputs of discretize_state, on both sides of every bin edge
RawPcts == {-11, -10, 10, NaN}
RawRsis == {29, 30, 70}
RawEmaCrosses == {-2, 1, NaN}
RawMacdCrosses == {-1, 2}
RawVols == {49, 50, 150}

\* rl_agent.py lines 82-94: the returned Python value; every component is made by
\* int(...) or is the literal 0
DiscretizeCall ==
    /\ prog = "risk" /\ steps < MaxCalls
    /\ \E price_change_pct \in RawPcts, rsi \in RawRsis, ema_cross \in RawEmaCrosses,
          macd_cross \in RawMacdCrosses, volatility \in RawVols :
          ev' = [op |-> "discretize_state",
                 args |-> <<price_change_pct, rsi, ema_cross, macd_cross, volatility>>,
                 result |-> [is_tuple |-> TRUE,
                             elems |-> [i \in 1..5 |->
                                 [is_int |-> TRUE,
                                  v |-> discretize_state(price_change_pct, rsi, ema_cross,
                                                         macd_cross, volatility)[i]]]]]
    /\ steps' = steps + 1
    /\ UNCHANGED <<prog, live, pc, cycle, selected, now, equity, peak_equity, history,
                   open_trades, prev_state, reward_ema, q_table, epsilon,
                   start_due, pnl_adds, disk>>

\* equity curves as main.py builds them: the initial equity, then the equity after
\* each close (900.00 under, at, or 1100.00 over the start)
CurveSteps == {INITIAL_EQUITY - 2000, INITIAL_EQUITY, INITIAL_EQUITY + 2000}
Curves ==
    {<<INITIAL_EQUITY>>} \cup {<<INITIAL_EQUITY, a>> : a \in CurveSteps}
        \cup {<<INITIAL_EQUITY, a, b>> : a \in CurveSteps, b \in CurveSteps}

\* utils.py lines 23-32, called as at main.py line 152 on history + [equity]
CalculateDrawdownCall ==
    /\ prog = "risk" /\ steps < MaxCalls
    /\ \E curve \in Curves :
          ev' = [op |-> "calculate_drawdown", curve |-> curve,
                 result |-> calculate_drawdown(curve)]
    /\ steps' = steps + 1
    /\ UNCHANGED <<prog, live, pc, cycle, selected, now, equity, peak_equity, history,
                   open_trades, prev_state, reward_ema, q_table, epsilon,
                   start_due, pnl_adds, disk>>

RiskNext ==
    \/ PositionSizeCall
    \/ CheckDrawdownCall
    \/ SimulateExecutionCall
    \/ DiscretizeCall
    \/ CalculateDrawdownCall
RiskSpec == RiskInit /\ [][RiskNext]_vars

----------------------------------------------------------------------------
Init == EngineInit \/ BacktestInit
Next == EngineNext \/ BacktestNext
Spec == Init /\ [][Next]_vars

----------------------------------------------------------------------------
(* Properties of run_trading_engine and backtest (specification Spec) *)

\* C1: in run_trading_engine a pair never holds two concurrent positions:
\* open_trades holds at most one record per pair (it is keyed by pair), and a
\* record is written for a pair only by a step that found no open trade for
\* it, in a cycle that began with no open trade for that pair.
C1_OnePositionPerPair ==
    prog = "engine" =>
        /\ DOMAIN open_trades \subseteq Pairs
        /\ (ev.op = "step" /\ ev.opened) =>
                /\ ~ev.had
                /\ ev.pair \notin DOMAIN start_due
                /\ ev.pair \in DOMAIN open_trades

\* C1 witness: a pair whose earlier trade was closed and learnt from opens a new one
C1_Witness ==
    /\ prog = "engine" /\ ev.op = "step" /\ ev.opened
    /\ ev.pair \in DOMAIN reward_ema

\* C2: every pair that holds an open trade at the start of a cycle, whatever
\* its rank and sentiment in that cycle, has the trade closed in that cycle
\* when its stop-loss, take-profit or max-hold-time trigger is true.  Stated
\* for a step whose logging does not raise, and for the end of the pair loop.
C2_TriggerCloses ==
    prog = "engine" =>
        /\ (/\ ev.op = "step" /\ ev.had /\ ev.outcome # "log_failed"
            /\ (ev.sl \/ ev.tp \/ ev.tte))
                => ev.pair \notin DOMAIN open_trades
        /\ (pc = "pairs" /\ selected = <<>>) =>
                \A p \in DOMAIN start_due :
                    (start_due[p] /\ pnl_adds[p] = 0) => p \notin DOMAIN open_trades

\* C3: every cycle that closes a pair's trade (its step enters the close
\* branch and realizes the PnL) appends exactly one value to the equity curve,
\* calls agent.learn exactly once for the pair and leaves it with no open trade.
C3_CloseAppendsLearnsRemoves ==
    (prog = "engine" /\ ev.op = "step" /\ ev.had /\ ev.appended > 0) =>
        /\ ev.appended = 1
        /\ ev.learns = 1
        /\ ev.pair \notin DOMAIN open_trades

\* C4: when log_trade (or another logging step of the close) raises during a
\* close, the loop continues and the state stays consistent: the trade is
\* removed, agent.learn is called once for it, and over all later cycles its
\* PnL is added to equity and to the equity curve exactly once.
C4_LogFailureConsistent ==
    prog = "engine" =>
        /\ \A p \in Pairs : pnl_adds[p] <= 1
        /\ (ev.op = "step" /\ ev.outcome = "log_failed") =>
                /\ ev.learns = 1
                /\ ev.pair \notin DOMAIN open_trades

\* C5: in a cycle that closes a pair's open trade, the pair is in NoPosition
\* after the close, and if the fused signal of the cycle is nonzero and the
\* adjusted size positive, a new trade for the pair is opened in that cycle.
C5_CloseThenOpen ==
    (prog = "engine" /\ ev.op = "step" /\ ev.outcome = "closed") =>
        IF ev.final # 0 /\ ev.sized
        THEN ev.opened /\ ev.pair \in DOMAIN open_trades
        ELSE ev.pair \notin DOMAIN open_trades

\* C6: for long and short trades alike, the stop-loss trigger is true iff the
\* exit fill is at least 2 x ATR from the entry price against the trade's
\* direction, and the take-profit trigger iff it is at least 2 x ATR in the
\* trade's favour.
C6_TriggersFollowDirection ==
    (/\ prog = "engine" /\ ev.op = "step" /\ ev.had
     /\ ev.outcome \in {"closed", "held", "log_failed"}) =>
        /\ ev.sl <=> (ev.signal * ev.move <= -2 * ev.atr)
        /\ ev.tp <=> (ev.signal * ev.move >= 2 * ev.atr)

\* C7: sentiment veto: whatever the strategy signal, the ML signal and the RL
\* action, a sentiment score of -0.3 or less yields final signal 0 and opens
\* no trade for the pair in that cycle, in run_trading_engine and in backtest.
C7_SentimentVeto ==
    (ev.op \in {"step", "bar"} /\ ev.sentiment <= SENTIMENT_THRESHOLD) =>
        /\ ev.final = 0
        /\ ~ev.opened
        /\ ev.had \/ ev.pair \notin DOMAIN open_trades

\* C7 witness: a flat pair at exactly the threshold, with a positive size, opens nothing
C7_Witness ==
    /\ prog = "engine" /\ ev.op = "step" /\ ev.outcome = "flat"
    /\ ev.sentiment = SENTIMENT_THRESHOLD /\ ev.sized

----------------------------------------------------------------------------
(* Properties of the two fusion rules (specification FuseSpec) *)

----------------------------------------------------------------------------
(* Properties of the agent (specification AgentSpec) *)

\* C9: for every valid state choose_action returns an element of [-1, 0, 1]:
\* any of them when it explores, and when it exploits the first action in the
\* order [-1, 0, 1] whose value is maximal in the state's row, so -1 for a
\* state whose row is all zeros or absent.
C9_ChooseAction ==
    ev.op = "choose" =>
        /\ ev.action \in {-1, 0, 1}
        /\ ~ev.explore =>
              \E i \in 1..3 :
                  /\ ev.action = <<-1, 0, 1>>[i]
                  /\ \A j \in 1..3 : ev.row[j] <= ev.row[i]
                  /\ \A j \in 1..3 : j < i => ev.row[j] < ev.row[i]
        /\ (~ev.explore /\ ev.row = <<0, 0, 0>>) => ev.action = -1

\* C9 witness: exploiting a row whose maximum is held by the actions 0 and 1 returns 0
C9_Witness ==
    /\ ev.op = "choose" /\ ~ev.explore
    /\ ev.row[2] = ev.row[3] /\ ev.row[1] < ev.row[2] /\ ev.action = 0

\* C10: over any sequence of choose_action and learn calls epsilon never
\* increases and never falls below epsilon_min; each learn call replaces
\* epsilon by max(epsilon * decay, epsilon_min), choose_action leaves it alone.
C10_EpsilonDecay ==
    /\ [](epsilon >= EPSILON_MIN)
    /\ [][/\ epsilon' <= epsilon
          /\ ev'.op = "learn" =>
                epsilon' = Max(Quot(epsilon * EPSILON_DECAY, FS), EPSILON_MIN)
          /\ ev'.op = "choose" => epsilon' = epsilon]_vars

\* C10 witness: a learn call takes epsilon down to the floor, another leaves it there
C10_Witness ==
    /\ prog = "agent" /\ ev.op = "learn" /\ steps >= 2
    /\ epsilon = EPSILON_MIN

\* C11: choose_action leaves epsilon as it was and changes no Q-value of a row the
\* table already holds; the only thing it may do to the table is add an all-zero
\* row for the state it was called with. Epsilon changes in learn and nowhere else.
C11_ChooseFrame ==
    [][/\ ev'.op = "choose" =>
            /\ epsilon' = epsilon
            /\ \A t \in DOMAIN q_table : t \in DOMAIN q_table' /\ q_table'[t] = q_table[t]
            /\ DOMAIN q_table' \subseteq DOMAIN q_table \cup {ev'.state}
            /\ \A t \in DOMAIN q_table' \ DOMAIN q_table : q_table'[t] = <<0, 0, 0>>
       /\ epsilon' # epsilon => ev'.op = "learn"]_vars

\* C11 witness: an exploiting choose_action on an absent state has added its zero
\* row next to a row that learn had filled
C11_Witness ==
    /\ ev.op = "choose" /\ ~ev.explore /\ ~ev.known
    /\ ev.state \in DOMAIN q_table
    /\ \E t \in DOMAIN q_table : t # ev.state /\ q_table[t] # <<0, 0, 0>>

\* C12: learn(state, action, reward, next_state) with valid arguments sets
\* Q[state][action] to old + alpha * (reward + gamma * max Q[next_state] - old),
\* where an absent row counts as zeros and the maximum is the one before the
\* update; every other entry keeps its value, also when state = next_state.
C12_LearnUpdate ==
    [][ev'.op = "learn" =>
         LET s == ev'.state
             s2 == ev'.next_state
             idx == CHOOSE i \in 1..3 : <<-1, 0, 1>>[i] = ev'.action
             old_row == IF s \in DOMAIN q_table THEN q_table[s] ELSE <<0, 0, 0>>
             next_row == IF s2 \in DOMAIN q_table THEN q_table[s2] ELSE <<0, 0, 0>>
             old == old_row[idx]
             best == SeqMax(next_row)
             new == old + Quot(ALPHA * (ev'.reward + Quot(GAMMA * best, FS) - old), FS)
         IN  /\ DOMAIN q_table' = DOMAIN q_table \cup {s, s2}
             /\ q_table'[s][idx] = new
             /\ \A i \in 1..3 : i # idx => q_table'[s][i] = old_row[i]
             /\ \A t \in DOMAIN q_table' \ {s} :
                   q_table'[t] = IF t \in DOMAIN q_table THEN q_table[t] ELSE <<0, 0, 0>>]_vars

\* C12 witness: a learn with state = next_state whose row already held a positive
\* maximum has changed the entry of its action
C12_Witness ==
    /\ ev.op = "learn" /\ ev.state = ev.next_state /\ ev.next_max_q > 0
    /\ q_table[ev.state][ActionIndex(ev.action)] # ev.current_q

\* C13: every learn call moves Q[state][action] from its old value toward the
\* target reward + gamma * max Q[next_state] of that call and never past it, for
\* every state, next_state and action; a repeated call therefore never overshoots
\* its target or diverges from it.
C13_TowardTarget ==
    ev.op = "learn" =>
        LET old == ev.current_q
            new == q_table[ev.state][ActionIndex(ev.action)]
            target == ev.reward + Quot(GAMMA * ev.next_max_q, FS)
        IN  /\ old <= target => old <= new /\ new <= target
            /\ old >= target => target <= new /\ new <= old
            /\ Abs(old - target) * ALPHA >= FS => new # old

\* C13 witness: a learn repeating the call before it has moved the value again,
\* toward a target made of the next state's maximum alone
C13_Witness ==
    /\ ev.op = "learn" /\ ev.repeat /\ ev.reward = 0 /\ ev.next_max_q > 0
    /\ ev.state # ev.next_state /\ Len(ev.state) = 5 /\ Len(ev.next_state) = 5
    /\ q_table[ev.state][ActionIndex(ev.action)] > ev.current_q

\* C13 as worded: a learn on 5-component states repeating the call before it
\* leaves Q[state][action] between its old value and reward / (1 - gamma)
C13_AsWorded ==
    (ev.op = "learn" /\ ev.repeat /\ Len(ev.state) = 5 /\ Len(ev.next_state) = 5) =>
        LET old == ev.current_q
            new == q_table[ev.state][ActionIndex(ev.action)]
            goal == Quot(ev.reward * FS, FS - GAMMA)
        IN  /\ old <= goal => old <= new /\ new <= goal
            /\ old >= goal => goal <= new /\ new <= old

\* C14: choose_action and learn fail with a validation error, before they read or
\* change the table, for every malformed state: a value that is not a tuple, a
\* tuple whose arity is not 5, a tuple with a component that is not an int.
C14_MalformedRejected ==
    LET malformed(value) == \/ ~value.is_tuple
                            \/ Len(value.elems) # 5
                            \/ \E i \in DOMAIN value.elems : ~value.elems[i].is_int
    IN  (/\ ev.op \in {"choose", "learn", "raise"}
         /\ \E i \in DOMAIN ev.args : malformed(ev.args[i])) => ev.op = "raise"

\* C15: a load that directly follows a successful save of the same snapshot
\* leaves a table with the same states and the same values, and for every state
\* of the table the action choose_action returns with epsilon forced to 0 is the
\* one it returned before the save.
C15_SaveLoadRoundTrip ==
    (ev.op = "load" /\ ev.after_save) =>
        /\ DOMAIN q_table = DOMAIN ev.before
        /\ \A s \in DOMAIN ev.before :
              /\ q_table[s] = ev.before[s]
              /\ Greedy(q_table, s) = Greedy(ev.before, s)

\* C15 witness: a table with a learned value has been saved and loaded back
C15_Witness ==
    /\ ev.op = "load" /\ ev.after_save
    /\ \E s \in DOMAIN ev.before : ev.before[s] # <<0, 0, 0>>

\* C16: a save or load that fails (unwritable path, missing or unreadable
\* snapshot) raises nothing to its caller and leaves the in-memory table as it was.
C16_FailureSwallowed ==
    (ev.op \in {"save", "load"} /\ ev.failed) => ~ev.raised /\ q_table = ev.before

C18_CheckDrawdown ==
    ev.op = "check_drawdown" =>
        /\ ev.peak <= 0 => ~ev.result
        /\ ev.peak > 0 => (ev.result <=> (ev.peak - ev.equity) * FS > ev.max_allowed * ev.peak)
        /\ (ev.peak = 2000 /\ ev.equity = 1800 /\ ev.max_allowed = 500) => ev.result
        /\ (ev.peak = 2000 /\ ev.equity = 1920 /\ ev.max_allowed = 500) => ~ev.result

\* C18 witness: equity 950.00 under a peak of 1000.00 with a limit of 5 % is a
\* drop equal to the limit and no breach
C18_Witness ==
    /\ ev.op = "check_drawdown" /\ ev.peak = 2000 /\ ev.equity = 1900
    /\ ev.max_allowed = 500 /\ ~ev.result

\* C20: simulate_execution returns raw_price for direction 0; for direction 1 a
\* fill within [raw + spread, raw + spread + SLIPPAGE_PIPS * pip]; for direction
\* -1 a fill within [raw - spread - SLIPPAGE_PIPS * pip, raw - spread], where
\* spread = SPREAD_PIPS * pip; a buy never fills below and a sell never above raw.
C20_FillBounds ==
    ev.op = "simulate_execution" =>
        LET pip == 10
            spread == (SPREAD_PIPS * pip) \div 10
            most == (SLIPPAGE_PIPS * pip) \div 10
        IN  /\ ev.direction = 0 => ev.result = ev.raw
            /\ ev.direction = 1 =>
                  ev.raw + spread <= ev.result /\ ev.result <= ev.raw + spread + most
            /\ ev.direction = -1 =>
                  ev.raw - spread - most <= ev.result /\ ev.result <= ev.raw - spread
            /\ ev.direction = 1 => ev.result >= ev.raw
            /\ ev.direction = -1 => ev.result <= ev.raw

\* C20 witness: a sell with the largest slippage is filled one pip under the mid
C20_Witness ==
    /\ ev.op = "simulate_execution" /\ ev.direction = -1 /\ ev.slip = SLIPPAGE_PIPS
    /\ ev.result = ev.raw - 10

\* C19: the drawdown gate is evaluated once per cycle, when every selected pair
\* of the cycle has been processed: a gate evaluation happens only with no pair
\* left and reports a breach exactly when (peak - equity) / peak exceeds
\* MAX_DRAWDOWN, and a new cycle starts only right after an evaluation that
\* reported none (or at the start of the engine). After a breach the loop has
\* ended: no later cycle starts and no trade is opened or closed. A breach that
\* arises between two pairs of a cycle does not end the loop before the gate: the
\* loop ends only at a gate evaluation, with no selected pair left.
C19_DrawdownGate ==
    /\ []((prog = "engine" /\ pc = "done" /\ ~live) =>
             ev.op = "gate" /\ ev.breach /\ selected = <<>>)
    /\ [][prog = "engine" =>
            /\ ev'.op = "gate" =>
                  /\ pc = "pairs" /\ selected = <<>> /\ cycle' = cycle
                  /\ ev'.breach <=> /\ peak_equity > 0
                                     /\ (peak_equity - equity) * FS > MAX_DRAWDOWN * peak_equity
                  /\ pc' = IF ev'.breach THEN "done" ELSE "idle"
            /\ cycle' # cycle =>
                  /\ cycle' = cycle + 1
                  /\ cycle = 0 \/ (ev.op = "gate" /\ ~ev.breach)
            /\ pc = "done" =>
                  /\ cycle' = cycle /\ open_trades' = open_trades
                  /\ history' = history /\ equity' = equity]_vars

\* C19 witness: the loop has ended on a breach that was there before the last pair
\* of the cycle was processed, and that pair still opened its trade
C19_Witness ==
    /\ prog = "engine" /\ pc = "done" /\ ev.op = "gate" /\ ev.breach
    /\ ev.last = "opened"

\* C21: discretize_state returns, for every input, a 5-tuple of integers whose
\* price-change bucket is in {-1,0,1}, rsi bucket in {0,1,2}, ema_cross and
\* macd_cross in {-1,0,1} (0 for an input outside that set) and volatility bucket
\* in {0,1,2}; validate_state accepts every tuple it returns.
C21_DiscretizeDomains ==
    ev.op = "discretize_state" =>
        LET t == ev.result.elems
        IN  /\ Len(t) = 5
            /\ \A i \in 1..5 : t[i].is_int
            /\ t[1].v \in {-1, 0, 1}
            /\ t[2].v \in {0, 1, 2}
            /\ t[3].v \in {-1, 0, 1} /\ t[4].v \in {-1, 0, 1}
            /\ t[3].v = (IF ev.args[3] \in {-1, 0, 1} THEN ev.args[3] ELSE 0)
            /\ t[4].v = (IF ev.args[4] \in {-1, 0, 1} THEN ev.args[4] ELSE 0)
            /\ t[5].v \in {0, 1, 2}
            /\ validate_state(ev.result)

\* C21 witness: a nan price change, a nan ema_cross and a macd_cross of 2 have
\* been binned to (1, ., 0, 0, .)
C21_Witness ==
    /\ ev.op = "discretize_state"
    /\ ev.args[1] = NaN /\ ev.args[3] = NaN /\ ev.args[4] = 2
    /\ ev.result.elems[1].v = 1 /\ ev.result.elems[3].v = 0 /\ ev.result.elems[4].v = 0

\* C22: the PnL realized on a close equals
\* direction * (exit - entry) / entry * position_size - commission, where entry is
\* the entry fill recorded in the open trade and exit is the simulated exit fill.
C22_PnLFromRecordedEntry ==
    (ev.op = "step" /\ ev.appended = 1) =>
        ev.pnl = Quot(MoneyScale * ev.signal * ev.move * ev.size, ev.entry)
                    - COMMISSION_PER_TRADE

\* C23: the drawdown recomputed on a close is the decline of the latest equity
\* from the running peak of the equity curve, (latest - peak) / peak; it is 0
\* whenever the latest equity is a new peak.
C23_DeclineFromPeak ==
    ev.op = "calculate_drawdown" =>
        LET latest == ev.curve[Len(ev.curve)]
            peak == SeqMax(ev.curve)
        IN  ev.result = Quot((latest - peak) * FS, peak)

C25_ErrorCaughtPerPair ==
    /\ [][(prog = "engine" /\ ev'.op = "step" /\ ev'.outcome \in {"error", "log_failed"}) =>
            pc' = "pairs" /\ selected' = Tail(selected) /\ cycle' = cycle]_vars
    /\ [][(prog = "engine" /\ ev.op = "step" /\ ev.outcome \in {"error", "log_failed"}) =>
            IF selected # <<>>
            THEN ev'.op = "step" /\ ev'.pair = Head(selected)
            ELSE /\ ev'.op = "gate" /\ ev'.last = ev.outcome
                 /\ pc' = IF ev'.breach THEN "done" ELSE "idle"]_vars

\* C25 witness: the gate has run after a cycle whose last pair raised, found no
\* breach, and left the loop waiting for its next cycle
C25_Witness ==
    /\ prog = "engine" /\ ev.op = "gate" /\ ev.last = "error" /\ ~ev.breach
    /\ pc = "idle" /\ cycle < MaxCycles

\* C26: the equity curve of run_trading_engine is append-only and starts at the
\* initial equity: existing elements never change, it grows by one element
\* exactly on a step that closes a trade (so its length is 1 plus the number of
\* closes), and after every pair step its last element is the current equity
\* and peak_equity is the maximum of the curve.
C26_CurveAppendOnly ==
    /\ [](prog = "engine" =>
             /\ history[1] = INITIAL_EQUITY
             /\ history[Len(history)] = equity
             /\ peak_equity = SeqMax(history))
    /\ [][prog = "engine" =>
            /\ Len(history') \in {Len(history), Len(history) + 1}
            /\ \A i \in 1..Len(history) : history'[i] = history[i]
            /\ Len(history') = Len(history) + 1 <=>
                  (ev'.op = "step" /\ ev'.outcome = "closed")]_vars

\* C27: run_trading_engine calls agent.learn only with action +1 or -1, the fused
\* signal of the trade it closes, never with 0; so in every reachable state the
\* Q-value of the hold action is 0 for every state of the table.
C27_HoldNeverLearned ==
    /\ (ev.op = "step" /\ ev.learns = 1) => ev.signal \in {-1, 1}
    /\ \A s \in DOMAIN q_table : q_table[s][2] = 0

\* C27 witness: a close has made the agent learn, and a row of the table holds a
\* nonzero value for a trading action next to the 0 of hold
C27_Witness ==
    /\ ev.op = "step" /\ ev.learns = 1
    /\ \E s \in DOMAIN q_table : q_table[s] # <<0, 0, 0>> /\ q_table[s][2] = 0

\* C28: a learn call that fails (malformed state, malformed next_state, or an
\* action that is not in [-1, 0, 1]) leaves the agent as it was: no Q-value
\* changes, no row is added to the table and epsilon does not decay; and every
\* call with such an argument fails.
C28_FailedLearnNoChange ==
    /\ [](ev.op = "learn" =>
             /\ validate_state(ev.args[1]) /\ validate_state(ev.args[2])
             /\ ev.action \in {-1, 0, 1})
    /\ [][(ev'.op = "raise" /\ ev'.call = "learn") =>
            q_table' = q_table /\ epsilon' = epsilon]_vars

\* C28 witness: a learn with two valid states and the unknown action 2 has
\* raised on an agent whose table held a learned row
C28_Witness ==
    /\ ev.op = "raise" /\ ev.call = "learn" /\ ev.action = 2
    /\ validate_state(ev.args[1]) /\ validate_state(ev.args[2])
    /\ Key(ev.args[1]) \notin DOMAIN q_table
    /\ \E s \in DOMAIN q_table : q_table[s] # <<0, 0, 0>>

====
